---- MODULE Spec2Model ----
\* Commit signing of asyncgit (src/asyncgit/src/sync/sign.rs):
\*   SignBuilder::from_gitconfig resolves a GPGSign from the git configuration,
\*   GPGSign::sign pipes the commit through the external signing program.
\* Strings are sequences of bytes, so that formatting, UTF-8 decoding and the
\* substring test of the status marker are computed, not assumed.
EXTENDS Integers, Sequences, FiniteSets, TLC

VARIABLES
    config,     \* git2::Config: the keys that are set, each with its value
    repo,       \* what signature_allow_undefined_name(repo) yields for this repository
    built,      \* Result of SignBuilder::from_gitconfig on the present store, NotCalled before
    self,       \* the GPGSign a sign call runs on: [program, signing_key]
    pc,         \* position of the sign call
    commit,     \* the commit text of the call in progress
    child,      \* the process spawned by the call
    stdin,      \* the parent's end of the child's standard input
    output,     \* std::process::Output collected by wait_with_output
    ret,        \* the Result the call returns
    spawns,     \* how often the call in progress has run cmd.spawn()
    prev,       \* what the call before this one returned, where that is recorded
    cap,        \* capacity of each of the three pipes, in bytes
    written,    \* how many bytes of commit write! has put into the input pipe
    inPipe,     \* bytes in the pipe to the child's standard input
    outPipe,    \* bytes in the pipe from the child's standard output
    errPipe,    \* bytes in the pipe from the child's standard error
    cproc,      \* the child program: its position and what it has yet to write
    got         \* what wait_with_output has read so far: [stdout, stderr]

pipeVars == <<cap, written, inPipe, outPipe, errPipe, cproc, got>>

vars == <<config, repo, built, self, pc, commit, child, stdin, output, ret,
          spawns, prev, pipeVars>>

resolverVars == <<config, repo, built>>

signVars == <<self, pc, commit, child, stdin, output, ret, spawns, prev, pipeVars>>

(***************************************************************************)
(* String literals of the source, as bytes.                                *)
(***************************************************************************)

\* 'shellouts'
S_shellouts ==
    <<115, 104, 101, 108, 108, 111, 117, 116, 115>>

\* 'rust'
S_rust ==
    <<114, 117, 115, 116>>

\* 'openpgp'
S_openpgp ==
    <<111, 112, 101, 110, 112, 103, 112>>

\* 'x509'
S_x509 ==
    <<120, 53, 48, 57>>

\* 'ssh'
S_ssh ==
    <<115, 115, 104>>

\* 'gpg'
S_gpg ==
    <<103, 112, 103>>

\* '<rust native>'
S_rust_native ==
    <<60, 114, 117, 115, 116, 32, 110, 97, 116, 105, 118, 101, 62>>

\* 'INVALID_SIGNING_FORMAT'
S_INVALID_SIGNING_FORMAT ==
    <<73, 78, 86, 65, 76, 73, 68, 95, 83, 73, 71, 78, 73, 78, 71, 95, 70, 79, 82, 77, 65, 84>>

\* 'GPG_PROGRAM_TEST'
S_GPG_PROGRAM_TEST ==
    <<71, 80, 71, 95, 80, 82, 79, 71, 82, 65, 77, 95, 84, 69, 83, 84>>

\* 'GPG_OPENPGP_PROGRAM_TEST'
S_GPG_OPENPGP_PROGRAM_TEST ==
    <<71, 80, 71, 95, 79, 80, 69, 78, 80, 71, 80, 95, 80, 82, 79, 71, 82, 65, 77, 95, 84, 69, 83, 84>>

\* 'FFAA'
S_FFAA ==
    <<70, 70, 65, 65>>

\* 'name'
S_name ==
    <<110, 97, 109, 101>>

\* 'email'
S_email ==
    <<101, 109, 97, 105, 108>>

\* '\n[GNUPG:] SIG_CREATED '
SIG_CREATED ==
    <<10, 91, 71, 78, 85, 80, 71, 58, 93, 32, 83, 73, 71, 95, 67, 82, 69, 65, 84, 69, 68, 32>>

\* 'Failed to build signing signature: '
Display_Signature ==
    <<70, 97, 105, 108, 101, 100, 32, 116, 111, 32, 98, 117, 105, 108, 100, 32, 115, 105, 103, 110, 105, 110, 103, 32, 115, 105, 103, 110, 97, 116, 117, 114, 101, 58, 32>>

\* "Failed to retrieve 'user.signingkey' from the git configuration: "
Display_GPGSigningKey ==
    <<70, 97, 105, 108, 101, 100, 32, 116, 111, 32, 114, 101, 116, 114, 105, 101, 118, 101, 32, 39, 117, 115, 101, 114, 46, 115, 105, 103, 110, 105, 110, 103, 107, 101, 121, 39, 32, 102, 114, 111, 109, 32, 116, 104, 101, 32, 103, 105, 116, 32, 99, 111, 110, 102, 105, 103, 117, 114, 97, 116, 105, 111, 110, 58, 32>>

\* "failed to sign data, program '"
Fmt_program ==
    <<102, 97, 105, 108, 101, 100, 32, 116, 111, 32, 115, 105, 103, 110, 32, 100, 97, 116, 97, 44, 32, 112, 114, 111, 103, 114, 97, 109, 32, 39>>

\* "' exited non-zero: "
Fmt_exited_non_zero ==
    <<39, 32, 101, 120, 105, 116, 101, 100, 32, 110, 111, 110, 45, 122, 101, 114, 111, 58, 32>>

\* '[error could not be read from stderr]'
Fmt_stderr_unreadable ==
    <<91, 101, 114, 114, 111, 114, 32, 99, 111, 117, 108, 100, 32, 110, 111, 116, 32, 98, 101, 32, 114, 101, 97, 100, 32, 102, 114, 111, 109, 32, 115, 116, 100, 101, 114, 114, 93>>

\* "' failed, SIG_CREATED not seen in stderr"
Fmt_not_seen ==
    <<39, 32, 102, 97, 105, 108, 101, 100, 44, 32, 83, 73, 71, 95, 67, 82, 69, 65, 84, 69, 68, 32, 110, 111, 116, 32, 115, 101, 101, 110, 32, 105, 110, 32, 115, 116, 100, 101, 114, 114>>

\* 'invalid utf-8 sequence of '
Fmt_invalid_utf8 ==
    <<105, 110, 118, 97, 108, 105, 100, 32, 117, 116, 102, 45, 56, 32, 115, 101, 113, 117, 101, 110, 99, 101, 32, 111, 102, 32>>

\* ' bytes from index '
Fmt_bytes_from_index ==
    <<32, 98, 121, 116, 101, 115, 32, 102, 114, 111, 109, 32, 105, 110, 100, 101, 120, 32>>

\* 'incomplete utf-8 byte sequence from index '
Fmt_incomplete_utf8 ==
    <<105, 110, 99, 111, 109, 112, 108, 101, 116, 101, 32, 117, 116, 102, 45, 56, 32, 98, 121, 116, 101, 32, 115, 101, 113, 117, 101, 110, 99, 101, 32, 102, 114, 111, 109, 32, 105, 110, 100, 101, 120, 32>>

\* "config value 'user.name' was not found"
E_user_name_not_found ==
    <<99, 111, 110, 102, 105, 103, 32, 118, 97, 108, 117, 101, 32, 39, 117, 115, 101, 114, 46, 110, 97, 109, 101, 39, 32, 119, 97, 115, 32, 110, 111, 116, 32, 102, 111, 117, 110, 100>>

\* 'No such file or directory (os error 2)'
E_ENOENT ==
    <<78, 111, 32, 115, 117, 99, 104, 32, 102, 105, 108, 101, 32, 111, 114, 32, 100, 105, 114, 101, 99, 116, 111, 114, 121, 32, 40, 111, 115, 32, 101, 114, 114, 111, 114, 32, 50, 41>>

\* 'Broken pipe (os error 32)'
E_EPIPE ==
    <<66, 114, 111, 107, 101, 110, 32, 112, 105, 112, 101, 32, 40, 111, 115, 32, 101, 114, 114, 111, 114, 32, 51, 50, 41>>

\* 'Invalid argument (os error 22)'
E_EINVAL ==
    <<73, 110, 118, 97, 108, 105, 100, 32, 97, 114, 103, 117, 109, 101, 110, 116, 32, 40, 111, 115, 32, 101, 114, 114, 111, 114, 32, 50, 50, 41>>

\* 'tree 4b825dc\n\nmsg\n'
T_commit ==
    <<116, 114, 101, 101, 32, 52, 98, 56, 50, 53, 100, 99, 10, 10, 109, 115, 103, 10>>

\* '-----BEGIN PGP SIGNATURE-----\n'
T_signature ==
    <<45, 45, 45, 45, 45, 66, 69, 71, 73, 78, 32, 80, 71, 80, 32, 83, 73, 71, 78, 65, 84, 85, 82, 69, 45, 45, 45, 45, 45, 10>>

(***************************************************************************)
(* Result, and the two error enums.                                        *)
(***************************************************************************)

Ok(v) ==
    [tag |-> "Ok", val |-> v]

Err(e) ==
    [tag |-> "Err", err |-> e]

NotCalled ==
    [tag |-> "NotCalled"]

is_ok(r) ==
    r.tag = "Ok"

is_err(r) ==
    r.tag = "Err"

\* enum SignBuilderError: every variant carries a String
SignBuilderError(variant, detail) ==
    [variant |-> variant, detail |-> detail]

\* SignBuilderError_to_string without the variants' message text
SignBuilderError_detail_only(e) ==
    e.detail

\* #[error("...")] of a SignBuilderError variant, as far as the code formats one
SignBuilderError_to_string(e) ==
    IF e.variant = "Signature" THEN Display_Signature \o e.detail
    ELSE IF e.variant = "GPGSigningKey" THEN Display_GPGSigningKey \o e.detail
    ELSE e.detail

\* enum SignError: Stdin carries nothing, the others a String
SignError(variant, detail) ==
    [variant |-> variant, detail |-> detail]

(***************************************************************************)
(* SignBuilder::from_gitconfig                                             *)
(***************************************************************************)

\* config.get_string(key): the value when the key is set, an error otherwise
get_string(cfg, key) ==
    IF key \in DOMAIN cfg THEN Ok(cfg[key]) ELSE Err(<<>>)

\* config.set_str(key, value)
set_str(cfg, key, value) ==
    [k \in (DOMAIN cfg) \cup {key} |-> IF k = key THEN value ELSE cfg[k]]

\* Result::unwrap_or_else(|_| default)
unwrap_or(r, default) ==
    IF is_ok(r) THEN r.val ELSE default

\* Display of the identity: "name <email>"
Signature_to_string(sig) ==
    sig.name \o <<32, 60>> \o sig.email \o <<62>>

\* crate::sync::commit::signature_allow_undefined_name(repo): an identity or an error
signature_allow_undefined_name(r) ==
    r

\* resolve_program with the general key asked first
resolve_program_general_first(cfg) ==
    LET general  == get_string(cfg, "gpg.program")
        specific == IF is_ok(general) THEN general
                    ELSE get_string(cfg, "gpg.openpgp.program")
    IN  unwrap_or(specific, S_gpg)

\* gpg.openpgp.program, else gpg.program, else "gpg"
resolve_program(cfg) ==
    LET specific == get_string(cfg, "gpg.openpgp.program")
        general  == IF is_ok(specific) THEN specific
                    ELSE get_string(cfg, "gpg.program")
    IN  unwrap_or(general, S_gpg)

\* signing_key_fallback with the identity's email in place of its Display
signing_key_fallback_email_only(r) ==
    LET sig == signature_allow_undefined_name(r)
    IN  IF is_ok(sig) THEN Ok(sig.val.email)
        ELSE Err(SignBuilderError("Signature", sig.err))

\* the or_else closure: the identity, its failure as SignBuilderError::Signature
signing_key_fallback(r) ==
    LET sig == signature_allow_undefined_name(r)
    IN  IF is_ok(sig) THEN Ok(Signature_to_string(sig.val))
        ELSE Err(SignBuilderError("Signature", sig.err))

\* signing_key_map_err left out: the closure's error is returned as it is
signing_key_without_map_err(r) ==
    r

\* the trailing map_err: whatever error is left becomes GPGSigningKey(err.to_string())
signing_key_map_err(r) ==
    IF is_ok(r) THEN r
    ELSE Err(SignBuilderError("GPGSigningKey", SignBuilderError_to_string(r.err)))

\* resolve_signing_key with the identity asked first
resolve_signing_key_identity_first(r, cfg) ==
    LET key == get_string(cfg, "user.signingKey")
        sig == signing_key_fallback(r)
    IN  signing_key_map_err(IF is_ok(sig) \/ is_err(key) THEN sig ELSE key)

\* user.signingKey, else the fallback identity
resolve_signing_key(r, cfg) ==
    LET key == get_string(cfg, "user.signingKey")
    IN  signing_key_map_err(IF is_ok(key) THEN key ELSE signing_key_fallback(r))

\* GPGSign::new
GPGSign_new(program, signing_key) ==
    [program |-> program, signing_key |-> signing_key]

\* the "openpgp" arm
match_openpgp(r, cfg) ==
    LET program     == resolve_program(cfg)
        signing_key == resolve_signing_key(r, cfg)
    IN  IF is_err(signing_key) THEN signing_key
        ELSE Ok(GPGSign_new(program, signing_key.val))

\* match_format without the "ssh" arm
match_format_without_ssh(r, cfg, format) ==
    IF format = S_openpgp THEN match_openpgp(r, cfg)
    ELSE IF format = S_x509
        THEN Err(SignBuilderError("MethodNotImplemented", S_x509))
    ELSE Err(SignBuilderError("InvalidFormat", format))

\* match format.as_str()
match_format(r, cfg, format) ==
    IF format = S_openpgp THEN match_openpgp(r, cfg)
    ELSE IF format = S_x509
        THEN Err(SignBuilderError("MethodNotImplemented", S_x509))
    ELSE IF format = S_ssh
        THEN Err(SignBuilderError("MethodNotImplemented", S_ssh))
    ELSE Err(SignBuilderError("InvalidFormat", format))

\* the "rust" arm left to the catch-all arm
match_rust_as_invalid ==
    Err(SignBuilderError("InvalidFormat", S_rust))

\* the "rust" arm
match_rust ==
    Err(SignBuilderError("MethodNotImplemented", S_rust_native))

\* match_signing_methods with the reserved formats rejected before the method is looked at
match_signing_methods_format_first(r, cfg, signing_methods) ==
    LET format == unwrap_or(get_string(cfg, "gpg.format"), S_openpgp)
    IN  IF format \in {S_x509, S_ssh}
            THEN Err(SignBuilderError("MethodNotImplemented", format))
        ELSE IF signing_methods = S_shellouts THEN match_format(r, cfg, format)
        ELSE IF signing_methods = S_rust THEN match_rust
        ELSE Err(SignBuilderError("InvalidFormat", signing_methods))

\* match signing_methods.as_str()
match_signing_methods(r, cfg, signing_methods) ==
    IF signing_methods = S_shellouts
        THEN match_format(r, cfg, unwrap_or(get_string(cfg, "gpg.format"), S_openpgp))
    ELSE IF signing_methods = S_rust THEN match_rust
    ELSE Err(SignBuilderError("InvalidFormat", signing_methods))

from_gitconfig(r, cfg) ==
    match_signing_methods(r, cfg,
        unwrap_or(get_string(cfg, "gitui.signing_methods"), S_shellouts))

(***************************************************************************)
(* std::str::from_utf8, str::contains and the formatting sign uses.        *)
(***************************************************************************)

\* a continuation byte, 0x80..=0xBF
is_utf8_cont(b) ==
    b >= 128 /\ b <= 191

\* the second byte a three-byte sequence led by `first` admits
utf8_second_of_3(first, b) ==
    \/ first = 224 /\ b >= 160 /\ b <= 191
    \/ first >= 225 /\ first <= 236 /\ is_utf8_cont(b)
    \/ first = 237 /\ b >= 128 /\ b <= 159
    \/ first >= 238 /\ first <= 239 /\ is_utf8_cont(b)

\* the second byte a four-byte sequence led by `first` admits
utf8_second_of_4(first, b) ==
    \/ first = 240 /\ b >= 144 /\ b <= 191
    \/ first >= 241 /\ first <= 243 /\ is_utf8_cont(b)
    \/ first = 244 /\ b >= 128 /\ b <= 143

\* Utf8Error { valid_up_to, error_len }; error_len 0 stands for None (input ended)
Utf8Error(valid_up_to, error_len) ==
    [valid_up_to |-> valid_up_to, error_len |-> error_len]

\* validation from byte index i (counted from 0): NoUtf8Error, or the first error
NoUtf8Error ==
    [valid_up_to |-> -1, error_len |-> 0]

RECURSIVE run_utf8_validation(_, _)
run_utf8_validation(v, i) ==
    IF i >= Len(v) THEN NoUtf8Error
    ELSE
        LET first == v[i + 1]
            has(k) == i + k < Len(v)
            at(k)  == v[i + k + 1]
        IN  IF first < 128 THEN run_utf8_validation(v, i + 1)
            ELSE IF first >= 194 /\ first <= 223 THEN
                IF ~has(1) THEN Utf8Error(i, 0)
                ELSE IF ~is_utf8_cont(at(1)) THEN Utf8Error(i, 1)
                ELSE run_utf8_validation(v, i + 2)
            ELSE IF first >= 224 /\ first <= 239 THEN
                IF ~has(1) THEN Utf8Error(i, 0)
                ELSE IF ~utf8_second_of_3(first, at(1)) THEN Utf8Error(i, 1)
                ELSE IF ~has(2) THEN Utf8Error(i, 0)
                ELSE IF ~is_utf8_cont(at(2)) THEN Utf8Error(i, 2)
                ELSE run_utf8_validation(v, i + 3)
            ELSE IF first >= 240 /\ first <= 244 THEN
                IF ~has(1) THEN Utf8Error(i, 0)
                ELSE IF ~utf8_second_of_4(first, at(1)) THEN Utf8Error(i, 1)
                ELSE IF ~has(2) THEN Utf8Error(i, 0)
                ELSE IF ~is_utf8_cont(at(2)) THEN Utf8Error(i, 2)
                ELSE IF ~has(3) THEN Utf8Error(i, 0)
                ELSE IF ~is_utf8_cont(at(3)) THEN Utf8Error(i, 3)
                ELSE run_utf8_validation(v, i + 4)
            ELSE Utf8Error(i, 1)

\* std::str::from_utf8(bytes)
from_utf8(bytes) ==
    LET e == run_utf8_validation(bytes, 0)
    IN  IF e = NoUtf8Error THEN Ok(bytes) ELSE Err(e)

\* decimal Display of an unsigned integer
RECURSIVE usize_to_string(_)
usize_to_string(n) ==
    IF n < 10 THEN <<48 + n>>
    ELSE usize_to_string(n \div 10) \o <<48 + (n % 10)>>

\* Display of Utf8Error, the e.to_string() of the two decoding failures
Utf8Error_to_string(e) ==
    IF e.error_len # 0
        THEN Fmt_invalid_utf8 \o usize_to_string(e.error_len)
             \o Fmt_bytes_from_index \o usize_to_string(e.valid_up_to)
        ELSE Fmt_incomplete_utf8 \o usize_to_string(e.valid_up_to)

\* str::contains(pat): pat occurs as a contiguous run of s
contains(s, pat) ==
    \E i \in 0..(Len(s) - Len(pat)) : SubSeq(s, i + 1, i + Len(pat)) = pat

(***************************************************************************)
(* GPGSign::sign, after the child has been collected.                      *)
(***************************************************************************)

Shellout(detail) ==
    Err(SignError("Shellout", detail))

\* the detail of a non-success exit
exited_non_zero(program, stderr) ==
    Fmt_program \o program \o Fmt_exited_non_zero
        \o unwrap_or(from_utf8(stderr), Fmt_stderr_unreadable)

\* the detail of a missing marker
not_seen(program) ==
    Fmt_program \o program \o Fmt_not_seen

\* signed_commit with a trailing newline trimmed off the signature
signed_commit_trimmed(out) ==
    LET decoded == from_utf8(out.stdout)
        n       == Len(out.stdout)
    IN  IF is_err(decoded) THEN Shellout(Utf8Error_to_string(decoded.err))
        ELSE IF n > 0 /\ decoded.val[n] = 10 THEN Ok(SubSeq(decoded.val, 1, n - 1))
        ELSE Ok(decoded.val)

\* the output stream decoded and returned
signed_commit(out) ==
    LET decoded == from_utf8(out.stdout)
    IN  IF is_err(decoded) THEN Shellout(Utf8Error_to_string(decoded.err))
        ELSE Ok(decoded.val)

\* check_stderr with the marker searched for without its leading newline
check_stderr_no_newline(program, out) ==
    LET stderr == from_utf8(out.stderr)
    IN  IF is_err(stderr) THEN Shellout(Utf8Error_to_string(stderr.err))
        ELSE IF ~contains(stderr.val, Tail(SIG_CREATED)) THEN Shellout(not_seen(program))
        ELSE signed_commit(out)

\* the error stream decoded and searched for the marker
check_stderr(program, out) ==
    LET stderr == from_utf8(out.stderr)
    IN  IF is_err(stderr) THEN Shellout(Utf8Error_to_string(stderr.err))
        ELSE IF ~contains(stderr.val, SIG_CREATED) THEN Shellout(not_seen(program))
        ELSE signed_commit(out)

\* check_output with the exit status looked at only when the marker check fails
check_output_marker_first(program, out) ==
    IF is_ok(check_stderr(program, out)) THEN check_stderr(program, out)
    ELSE IF ~out.success THEN Shellout(exited_non_zero(program, out.stderr))
    ELSE check_stderr(program, out)

\* the exit status first, then the rest
check_output(program, out) ==
    IF ~out.success THEN Shellout(exited_non_zero(program, out.stderr))
    ELSE check_stderr(program, out)

(***************************************************************************)
(* Bounds and the values the environment supplies.                         *)
(***************************************************************************)

\* chunks the child writes to its error stream, at most
MaxErrChunks == 3

\* chunks the child writes to its output stream, at most
MaxOutChunks == 3

\* every concatenation of at most n chunks
RECURSIVE Streams(_, _)
Streams(chunks, n) ==
    IF n = 0 THEN {<<>>}
    ELSE LET shorter == Streams(chunks, n - 1)
         IN  shorter \cup {s \o c : s \in shorter, c \in chunks}

\* a newline, the marker without its newline, the two bytes of U+00E9 apart
StderrChunks ==
    {<<10>>, Tail(SIG_CREATED), <<195>>, <<169>>}

StdoutChunks ==
    {T_signature, <<195>>, <<169>>}

Outputs ==
    [success : BOOLEAN,
     stdout  : Streams(StdoutChunks, MaxOutChunks),
     stderr  : Streams(StderrChunks, MaxErrChunks)]

NoOutput ==
    [success |-> FALSE, stdout |-> <<>>, stderr |-> <<-1>>]

Commits ==
    {<<>>, T_commit}

Programs ==
    {S_gpg, S_GPG_PROGRAM_TEST}

SigningKeys ==
    {S_FFAA}

ConfigKeys ==
    {"gitui.signing_methods", "gpg.format", "gpg.openpgp.program",
     "gpg.program", "user.signingKey"}

\* the values a key is set to
ConfigValues(key) ==
    IF key \in {"gitui.signing_methods", "gpg.format"}
        THEN {S_shellouts, S_rust, S_openpgp, S_x509, S_ssh, S_INVALID_SIGNING_FORMAT}
    ELSE IF key = "user.signingKey" THEN {S_FFAA}
    ELSE {S_GPG_PROGRAM_TEST, S_GPG_OPENPGP_PROGRAM_TEST}

\* repositories: an identity with name and email, one without email, none at all
Repos ==
    {Ok([name |-> S_name, email |-> S_email]),
     Ok([name |-> S_name, email |-> <<>>]),
     Err(E_user_name_not_found)}

EmptyConfig ==
    [k \in {} |-> <<>>]

(***************************************************************************)
(* The resolver: a repository, its configuration, and from_gitconfig.      *)
(***************************************************************************)

\* no child program
NoProc ==
    [pc |-> "none", success |-> FALSE, stdout |-> <<>>, stderr |-> <<>>, next |-> "out"]

NoneRead ==
    [stdout |-> <<>>, stderr |-> <<>>]

\* no pipe exists and nothing has moved
PipesIdle ==
    /\ written = 0
    /\ inPipe = <<>>
    /\ outPipe = <<>>
    /\ errPipe = <<>>
    /\ cproc = NoProc
    /\ got = NoneRead

SignIdle ==
    /\ pc = "Idle"
    /\ commit = <<>>
    /\ child = "none"
    /\ stdin = "none"
    /\ output = NoOutput
    /\ ret = NotCalled
    /\ spawns = 0
    /\ prev = NotCalled
    /\ PipesIdle

\* repo_init_empty: no key set
Init ==
    /\ config = EmptyConfig
    /\ repo \in Repos
    /\ built = NotCalled
    /\ self = GPGSign_new(S_gpg, S_FFAA)
    /\ cap = 0
    /\ SignIdle

\* config.set_str(key, value); a result obtained from the store before is dropped
SetStr ==
    \E key \in ConfigKeys : \E value \in ConfigValues(key) :
        /\ get_string(config, key) # Ok(value)
        /\ config' = set_str(config, key, value)
        /\ built' = NotCalled
        /\ UNCHANGED <<repo, signVars>>

\* let sign = SignBuilder::from_gitconfig(&repo, &repo.config()?)
FromGitconfig ==
    /\ built = NotCalled
    /\ built' = from_gitconfig(repo, config)
    /\ UNCHANGED <<config, repo, signVars>>

Next ==
    \/ SetStr
    \/ FromGitconfig

Spec ==
    Init /\ [][Next]_vars

(***************************************************************************)
(* The signer: one sign call after another on a GPGSign.                   *)
(***************************************************************************)

SpawnErrors ==
    {E_ENOENT}

WriteErrors ==
    {E_EPIPE}

WaitErrors ==
    {E_EINVAL}

InitSign ==
    /\ config = EmptyConfig
    /\ repo = Ok([name |-> S_name, email |-> S_email])
    /\ built = NotCalled
    /\ self \in {GPGSign_new(p, k) : p \in Programs, k \in SigningKeys}
    /\ cap = 0
    /\ SignIdle

\* sign(&self, commit): the command is built
Call ==
    /\ pc = "Idle"
    /\ \E c \in Commits : commit' = c
    /\ pc' = "Created"
    /\ UNCHANGED <<self, child, stdin, output, ret, spawns, prev, resolverVars, pipeVars>>

\* Spawn with a failed spawn tried once more
Spawn_retried ==
    /\ pc = "Created"
    /\ \/ /\ child' = "running"
          /\ stdin' = "piped"
          /\ pc' = "Spawned"
          /\ ret' = ret
       \/ /\ spawns < 2
          /\ UNCHANGED <<child, stdin, pc, ret>>
       \/ /\ \E e \in SpawnErrors : ret' = Err(SignError("Spawn", e))
          /\ pc' = "Failed"
          /\ UNCHANGED <<child, stdin>>
    /\ spawns' = spawns + 1
    /\ UNCHANGED <<self, commit, output, prev, resolverVars, pipeVars>>

\* cmd.spawn().map_err(Spawn)?
Spawn ==
    /\ pc = "Created"
    /\ \/ /\ child' = "running"
          /\ stdin' = "piped"
          /\ pc' = "Spawned"
          /\ ret' = ret
       \/ /\ \E e \in SpawnErrors : ret' = Err(SignError("Spawn", e))
          /\ pc' = "Failed"
          /\ UNCHANGED <<child, stdin>>
    /\ spawns' = spawns + 1
    /\ UNCHANGED <<self, commit, output, prev, resolverVars, pipeVars>>

\* WriteStdin with the write left out: the child is waited for at once
WriteStdin_skipped ==
    /\ pc = "Spawned"
    /\ stdin' = "closed"
    /\ \E out \in Outputs : output' = out
    /\ child' = "reaped"
    /\ pc' = "Exited"
    /\ UNCHANGED <<self, commit, ret, spawns, prev, resolverVars, pipeVars>>

\* child.stdin.take().ok_or(Stdin)?, then write!(stdin, "{commit}").map_err(WriteBuffer)?
\* (nothing is written for an empty commit, so that write cannot fail)
WriteStdin ==
    /\ pc = "Spawned"
    /\ IF stdin # "piped"
        THEN /\ ret' = Err(SignError("Stdin", <<>>))
             /\ pc' = "Failed"
             /\ stdin' = stdin
        ELSE /\ stdin' = "taken"
             /\ \/ /\ pc' = "Written"
                   /\ ret' = ret
                \/ /\ Len(commit) > 0
                   /\ \E e \in WriteErrors : ret' = Err(SignError("WriteBuffer", e))
                   /\ pc' = "Failed"
    /\ UNCHANGED <<self, commit, child, output, spawns, prev, resolverVars, pipeVars>>

\* drop(stdin)
DropStdin ==
    /\ pc = "Written"
    /\ stdin' = "closed"
    /\ pc' = "InputWritten"
    /\ UNCHANGED <<self, commit, child, output, ret, spawns, prev, resolverVars, pipeVars>>

\* WaitWithOutputOf with the failed wait reported as Shellout
WaitWithOutputOf_as_shellout(outs) ==
    /\ pc = "InputWritten"
    /\ \/ /\ \E out \in outs : output' = out
          /\ child' = "reaped"
          /\ pc' = "Exited"
          /\ ret' = ret
       \/ /\ \E e \in WaitErrors : ret' = Err(SignError("Shellout", e))
          /\ pc' = "Failed"
          /\ child' = "exited"
          /\ output' = output
    /\ UNCHANGED <<self, commit, stdin, spawns, prev, resolverVars, pipeVars>>

\* child.wait_with_output().map_err(Output)?, the child's streams being among outs:
\* both streams are read to their end and the child is waited for; when the wait
\* fails the child is gone all the same, but this call has not reaped it
WaitWithOutputOf(outs) ==
    /\ pc = "InputWritten"
    /\ \/ /\ \E out \in outs : output' = out
          /\ child' = "reaped"
          /\ pc' = "Exited"
          /\ ret' = ret
       \/ /\ \E e \in WaitErrors : ret' = Err(SignError("Output", e))
          /\ pc' = "Failed"
          /\ child' = "exited"
          /\ output' = output
    /\ UNCHANGED <<self, commit, stdin, spawns, prev, resolverVars, pipeVars>>

WaitWithOutput ==
    WaitWithOutputOf(Outputs)

\* CheckOutput with a failure of the call before kept and returned again
CheckOutput_remembering ==
    /\ pc = "Exited"
    /\ ret' = IF is_err(prev) THEN prev ELSE check_output(self.program, output)
    /\ pc' = IF is_ok(ret') THEN "Confirmed" ELSE "Failed"
    /\ UNCHANGED <<self, commit, child, stdin, output, spawns, prev, resolverVars, pipeVars>>

\* the status, the marker and the decoding of the collected output
CheckOutput ==
    /\ pc = "Exited"
    /\ ret' = check_output(self.program, output)
    /\ pc' = IF is_ok(ret') THEN "Confirmed" ELSE "Failed"
    /\ UNCHANGED <<self, commit, child, stdin, output, spawns, prev, resolverVars, pipeVars>>

\* the call returns; its locals are dropped (a dropped Child is neither killed nor
\* waited for); p is what is remembered of the call
ReturnTo(p) ==
    /\ pc \in {"Confirmed", "Failed"}
    /\ pc' = "Idle"
    /\ commit' = <<>>
    /\ stdin' = "none"
    /\ output' = NoOutput
    /\ ret' = NotCalled
    /\ spawns' = 0
    /\ prev' = p
    /\ UNCHANGED <<self, child, resolverVars, pipeVars>>

Return ==
    ReturnTo(prev)

NextSign ==
    \/ Call
    \/ Spawn
    \/ WriteStdin
    \/ DropStdin
    \/ WaitWithOutput
    \/ CheckOutput
    \/ Return

SpecSign ==
    InitSign /\ [][NextSign]_vars

(***************************************************************************)
(* The signer with the result of the call before on record.                *)
(***************************************************************************)

\* a child's streams of at most one chunk of output and two of error
SampleOutputs ==
    [success : BOOLEAN,
     stdout  : {<<>>} \cup StdoutChunks,
     stderr  : {<<>>} \cup StderrChunks \cup {s \o c : s \in StderrChunks, c \in StderrChunks}]

WaitWithSampleOutput ==
    WaitWithOutputOf(SampleOutputs)

ReturnRecorded ==
    ReturnTo(ret)

NextCalls ==
    \/ Call
    \/ Spawn
    \/ WriteStdin
    \/ DropStdin
    \/ WaitWithSampleOutput
    \/ CheckOutput
    \/ ReturnRecorded

SpecCalls ==
    InitSign /\ [][NextCalls]_vars

(***************************************************************************)
(* The signer and its child, byte by byte through three bounded pipes.     *)
(***************************************************************************)

\* capacity of a pipe, at most
MaxPipeCap == 2

Min(a, b) ==
    IF a < b THEN a ELSE b

\* what a child is to write: nothing or five bytes of signature to its output
\* stream, a bare newline or the marker to its error stream
PipePlans ==
    [success : BOOLEAN,
     stdout  : {<<>>, SubSeq(T_signature, 1, 5)},
     stderr  : {<<10>>, SIG_CREATED}]

InitPipe ==
    /\ config = EmptyConfig
    /\ repo = Ok([name |-> S_name, email |-> S_email])
    /\ built = NotCalled
    /\ self = GPGSign_new(S_gpg, S_FFAA)
    /\ cap \in 1..MaxPipeCap
    /\ SignIdle

\* the streams the child has something left to write to
Unfinished(c) ==
    {s \in {"out", "err"} : (IF s = "out" THEN c.stdout ELSE c.stderr) # <<>>}

\* the stream the child may turn to next
NextTargets(c) ==
    IF Unfinished(c) = {} THEN {c.next} ELSE Unfinished(c)

\* cmd.spawn().map_err(Spawn)?: three pipes and a child that starts by reading
PipeSpawn ==
    /\ pc = "Created"
    /\ \/ /\ \E plan \in PipePlans :
                cproc' = [pc |-> "reading", success |-> plan.success,
                          stdout |-> plan.stdout, stderr |-> plan.stderr,
                          next |-> "out"]
          /\ child' = "running"
          /\ stdin' = "piped"
          /\ pc' = "Spawned"
          /\ ret' = ret
       \/ /\ \E e \in SpawnErrors : ret' = Err(SignError("Spawn", e))
          /\ pc' = "Failed"
          /\ UNCHANGED <<child, stdin, cproc>>
    /\ spawns' = spawns + 1
    /\ UNCHANGED <<self, commit, output, prev, resolverVars,
                   cap, written, inPipe, outPipe, errPipe, got>>

\* child.stdin.take().ok_or(Stdin)?, then write!(stdin, "{commit}"): write_all puts
\* as much into the pipe as fits, blocks while the pipe is full, and fails once
\* the child has closed its end
PipeWrite ==
    /\ pc = "Spawned"
    /\ IF stdin \notin {"piped", "taken"}
        THEN /\ ret' = Err(SignError("Stdin", <<>>))
             /\ pc' = "Failed"
             /\ UNCHANGED <<stdin, written, inPipe>>
        ELSE /\ stdin' = "taken"
             /\ \/ /\ written = Len(commit)
                   /\ pc' = "Written"
                   /\ UNCHANGED <<ret, written, inPipe>>
                \/ /\ written < Len(commit)
                   /\ cproc.pc = "exited"
                   /\ \E e \in WriteErrors : ret' = Err(SignError("WriteBuffer", e))
                   /\ pc' = "Failed"
                   /\ UNCHANGED <<written, inPipe>>
                \/ /\ written < Len(commit)
                   /\ cproc.pc # "exited"
                   /\ \E k \in 1..Min(cap - Len(inPipe), Len(commit) - written) :
                        /\ inPipe' = inPipe \o SubSeq(commit, written + 1, written + k)
                        /\ written' = written + k
                   /\ UNCHANGED <<pc, ret>>
    /\ UNCHANGED <<self, commit, child, output, spawns, prev, resolverVars,
                   cap, outPipe, errPipe, cproc, got>>

\* PipeDropStdin with the drop left out: the handle stays open while the call waits
PipeDropStdin_forgotten ==
    /\ pc = "Written"
    /\ pc' = "InputWritten"
    /\ UNCHANGED <<self, commit, child, stdin, output, ret, spawns, prev, resolverVars,
                   pipeVars>>

\* drop(stdin)
PipeDropStdin ==
    /\ pc = "Written"
    /\ stdin' = "closed"
    /\ pc' = "InputWritten"
    /\ UNCHANGED <<self, commit, child, output, ret, spawns, prev, resolverVars,
                   pipeVars>>

\* PipeDrain reading the output stream to its end before it turns to the error stream
PipeDrain_stdout_first ==
    /\ pc = "InputWritten"
    /\ \/ /\ outPipe # <<>>
          /\ \E k \in 1..Len(outPipe) :
                /\ got' = [got EXCEPT !.stdout = @ \o SubSeq(outPipe, 1, k)]
                /\ outPipe' = SubSeq(outPipe, k + 1, Len(outPipe))
          /\ errPipe' = errPipe
       \/ /\ outPipe = <<>> /\ cproc.pc = "exited"
          /\ errPipe # <<>>
          /\ \E k \in 1..Len(errPipe) :
                /\ got' = [got EXCEPT !.stderr = @ \o SubSeq(errPipe, 1, k)]
                /\ errPipe' = SubSeq(errPipe, k + 1, Len(errPipe))
          /\ outPipe' = outPipe
    /\ UNCHANGED <<self, pc, commit, child, stdin, output, ret, spawns, prev,
                   resolverVars, cap, written, inPipe, cproc>>

\* child.wait_with_output(), reading: whatever either stream holds is taken
PipeDrain ==
    /\ pc = "InputWritten"
    /\ \/ /\ outPipe # <<>>
          /\ \E k \in 1..Len(outPipe) :
                /\ got' = [got EXCEPT !.stdout = @ \o SubSeq(outPipe, 1, k)]
                /\ outPipe' = SubSeq(outPipe, k + 1, Len(outPipe))
          /\ errPipe' = errPipe
       \/ /\ errPipe # <<>>
          /\ \E k \in 1..Len(errPipe) :
                /\ got' = [got EXCEPT !.stderr = @ \o SubSeq(errPipe, 1, k)]
                /\ errPipe' = SubSeq(errPipe, k + 1, Len(errPipe))
          /\ outPipe' = outPipe
    /\ UNCHANGED <<self, pc, commit, child, stdin, output, ret, spawns, prev,
                   resolverVars, cap, written, inPipe, cproc>>

\* PipeWait giving up on a child that has not exited
PipeWait_timing_out ==
    /\ pc = "InputWritten"
    /\ outPipe = <<>> /\ errPipe = <<>>
    /\ \/ /\ cproc.pc = "exited"
          /\ output' = [success |-> cproc.success,
                        stdout |-> got.stdout, stderr |-> got.stderr]
          /\ child' = "reaped"
          /\ pc' = "Exited"
          /\ ret' = ret
       \/ /\ \E e \in WaitErrors : ret' = Err(SignError("Output", e))
          /\ pc' = "Failed"
          /\ child' = "exited"
          /\ output' = output
    /\ UNCHANGED <<self, commit, stdin, spawns, prev, resolverVars, pipeVars>>

\* child.wait_with_output().map_err(Output)?, both streams at their end: the exit
\* status is waited for, and the wait can fail
PipeWait ==
    /\ pc = "InputWritten"
    /\ outPipe = <<>> /\ errPipe = <<>>
    /\ cproc.pc = "exited"
    /\ \/ /\ output' = [success |-> cproc.success,
                        stdout |-> got.stdout, stderr |-> got.stderr]
          /\ child' = "reaped"
          /\ pc' = "Exited"
          /\ ret' = ret
       \/ /\ \E e \in WaitErrors : ret' = Err(SignError("Output", e))
          /\ pc' = "Failed"
          /\ child' = "exited"
          /\ output' = output
    /\ UNCHANGED <<self, commit, stdin, spawns, prev, resolverVars, pipeVars>>

\* the call returns; its locals, the pipes' ends among them, are dropped
PipeReturn ==
    /\ pc \in {"Confirmed", "Failed"}
    /\ pc' = "Idle"
    /\ commit' = <<>>
    /\ stdin' = "none"
    /\ output' = NoOutput
    /\ ret' = NotCalled
    /\ spawns' = 0
    /\ written' = 0
    /\ inPipe' = <<>>
    /\ outPipe' = <<>>
    /\ errPipe' = <<>>
    /\ cproc' = NoProc
    /\ got' = NoneRead
    /\ UNCHANGED <<self, child, prev, cap, resolverVars>>

parentVars == <<self, pc, commit, child, stdin, output, ret, spawns, prev, cap,
                written, got, resolverVars>>

\* the signing program reads its input: what the pipe holds, and at the end of
\* the stream it turns to writing
ChildRead ==
    /\ cproc.pc = "reading"
    /\ \/ /\ inPipe # <<>>
          /\ \E k \in 1..Len(inPipe) : inPipe' = SubSeq(inPipe, k + 1, Len(inPipe))
          /\ cproc' = cproc
       \/ /\ inPipe = <<>>
          /\ stdin = "closed"
          /\ \E s \in NextTargets(cproc) :
                cproc' = [cproc EXCEPT !.pc = "writing", !.next = s]
          /\ inPipe' = inPipe
    /\ UNCHANGED <<parentVars, outPipe, errPipe>>

\* the signing program writes to the stream it has turned to, as much as the pipe
\* takes, and blocks on that stream while its pipe is full
ChildWrite ==
    /\ cproc.pc = "writing"
    /\ \/ /\ cproc.next = "out"
          /\ \E k \in 1..Min(cap - Len(outPipe), Len(cproc.stdout)) :
                /\ outPipe' = outPipe \o SubSeq(cproc.stdout, 1, k)
                /\ \E s \in {"out", "err"} :
                    LET rest == [cproc EXCEPT
                                    !.stdout = SubSeq(@, k + 1, Len(@))]
                    IN  /\ s \in NextTargets(rest)
                        /\ cproc' = [rest EXCEPT !.next = s]
          /\ errPipe' = errPipe
       \/ /\ cproc.next = "err"
          /\ \E k \in 1..Min(cap - Len(errPipe), Len(cproc.stderr)) :
                /\ errPipe' = errPipe \o SubSeq(cproc.stderr, 1, k)
                /\ \E s \in {"out", "err"} :
                    LET rest == [cproc EXCEPT
                                    !.stderr = SubSeq(@, k + 1, Len(@))]
                    IN  /\ s \in NextTargets(rest)
                        /\ cproc' = [rest EXCEPT !.next = s]
          /\ outPipe' = outPipe
    /\ UNCHANGED <<parentVars, inPipe>>

\* the signing program exits, all written
ChildExit ==
    /\ cproc.pc = "writing"
    /\ Unfinished(cproc) = {}
    /\ cproc' = [cproc EXCEPT !.pc = "exited"]
    /\ UNCHANGED <<parentVars, inPipe, outPipe, errPipe>>

\* the signing program blocks for good, its streams left open
ChildHang ==
    /\ cproc.pc \in {"reading", "writing"}
    /\ cproc' = [cproc EXCEPT !.pc = "hung"]
    /\ UNCHANGED <<parentVars, inPipe, outPipe, errPipe>>

\* the signing program exits before it has read its input, nothing written
ChildQuit ==
    /\ cproc.pc = "reading"
    /\ cproc' = [cproc EXCEPT !.pc = "exited", !.stdout = <<>>, !.stderr = <<>>]
    /\ UNCHANGED <<parentVars, inPipe, outPipe, errPipe>>

ParentStep ==
    \/ PipeSpawn
    \/ PipeWrite
    \/ PipeDropStdin
    \/ PipeDrain
    \/ PipeWait
    \/ CheckOutput

BatchChildStep ==
    \/ ChildRead
    \/ ChildWrite
    \/ ChildExit

NextPipe ==
    \/ Call
    \/ ParentStep
    \/ PipeReturn
    \/ BatchChildStep
    \/ ChildHang
    \/ ChildQuit

\* any signing program
SpecPipe ==
    InitPipe /\ [][NextPipe]_vars

NextBatch ==
    \/ Call
    \/ ParentStep
    \/ PipeReturn
    \/ BatchChildStep

\* a signing program that reads all its input, then writes and exits; both
\* processes keep running while they can
SpecBatch ==
    /\ InitPipe
    /\ [][NextBatch]_vars
    /\ WF_vars(ParentStep)
    /\ WF_vars(BatchChildStep)

(***************************************************************************)
(* Properties of the resolver (checked under Spec).                        *)
(***************************************************************************)

IsSet(key) ==
    key \in DOMAIN config

\* gitui.signing_methods is absent or "shellouts"
MethodIsShellouts ==
    IsSet("gitui.signing_methods") => config["gitui.signing_methods"] = S_shellouts

\* the store resolves to the openpgp format
ResolvesToOpenpgp ==
    /\ MethodIsShellouts
    /\ IsSet("gpg.format") => config["gpg.format"] = S_openpgp

Resolved ==
    built # NotCalled

BuiltErr(variant) ==
    is_err(built) /\ built.err.variant = variant

\* C3: on a store that resolves to openpgp the program is gpg.openpgp.program when
\* set, else gpg.program when set, else "gpg"; and the call fails only when no
\* signing key can be had, never because of the program keys.
C3_ProgramPrecedence ==
    (Resolved /\ ResolvesToOpenpgp) =>
        /\ is_ok(built) =>
             built.val.program =
                IF IsSet("gpg.openpgp.program") THEN config["gpg.openpgp.program"]
                ELSE IF IsSet("gpg.program") THEN config["gpg.program"]
                ELSE S_gpg
        /\ (IsSet("user.signingKey") \/ is_ok(repo)) => is_ok(built)

C3_Witness ==
    /\ Resolved /\ ResolvesToOpenpgp
    /\ IsSet("gpg.program") /\ config["gpg.program"] = S_GPG_PROGRAM_TEST
    /\ IsSet("gpg.openpgp.program")
    /\ config["gpg.openpgp.program"] = S_GPG_OPENPGP_PROGRAM_TEST
    /\ is_ok(built) /\ built.val.program = S_GPG_OPENPGP_PROGRAM_TEST

\* C4: on a store that resolves to openpgp with user.signingKey = K the call
\* succeeds with signing key K, whatever the repository's identity is.
C4_SigningKeyOverridesIdentity ==
    (Resolved /\ ResolvesToOpenpgp /\ IsSet("user.signingKey")) =>
        /\ is_ok(built)
        /\ built.val.signing_key = config["user.signingKey"]
        /\ \A r \in Repos : from_gitconfig(r, config) = built

C4_Witness ==
    /\ Resolved /\ ResolvesToOpenpgp
    /\ IsSet("user.signingKey") /\ config["user.signingKey"] = S_FFAA
    /\ is_err(repo)
    /\ is_ok(built) /\ built.val.signing_key = S_FFAA

\* C5: under "shellouts", gpg.format "x509" or "ssh" fails with
\* MethodNotImplemented(format), any other value but "openpgp" with
\* InvalidFormat(value); nothing else in the store or repository matters.
C5_UnsupportedFormat ==
    (Resolved /\ MethodIsShellouts /\ IsSet("gpg.format")
        /\ config["gpg.format"] # S_openpgp) =>
        built = Err(SignBuilderError(
                    IF config["gpg.format"] \in {S_x509, S_ssh}
                        THEN "MethodNotImplemented" ELSE "InvalidFormat",
                    config["gpg.format"]))

C5_Witness ==
    /\ Resolved /\ MethodIsShellouts
    /\ IsSet("gpg.format") /\ config["gpg.format"] = S_INVALID_SIGNING_FORMAT
    /\ IsSet("gpg.program") /\ IsSet("user.signingKey") /\ is_err(repo)
    /\ BuiltErr("InvalidFormat")

\* C6: with none of the five keys set and an identity available the call succeeds
\* with program "gpg" and signing key "<name> <email>".
C6_Defaults ==
    (Resolved /\ config = EmptyConfig /\ is_ok(repo)) =>
        built = Ok([program |-> S_gpg,
                    signing_key |-> repo.val.name \o <<32, 60>>
                                        \o repo.val.email \o <<62>>])

\* "name <email>", the identity of the test repository
C6_Witness ==
    /\ Resolved /\ config = EmptyConfig
    /\ repo = Ok([name |-> S_name, email |-> S_email])
    /\ is_ok(built)
    /\ built.val.signing_key = <<110, 97, 109, 101, 32, 60, 101, 109, 97, 105, 108, 62>>

\* '<native>'
S_native ==
    <<60, 110, 97, 116, 105, 118, 101, 62>>

\* C8 as stated: gitui.signing_methods = "rust" fails with
\* MethodNotImplemented("<native>").
C8_RustIsNative ==
    (Resolved /\ IsSet("gitui.signing_methods")
        /\ config["gitui.signing_methods"] = S_rust) =>
        built = Err(SignBuilderError("MethodNotImplemented", S_native))

\* C8 as amended: gitui.signing_methods = "rust" fails with
\* MethodNotImplemented("<rust native>").
C8_RustIsRustNative ==
    (Resolved /\ IsSet("gitui.signing_methods")
        /\ config["gitui.signing_methods"] = S_rust) =>
        built = Err(SignBuilderError("MethodNotImplemented", S_rust_native))

C8_Witness ==
    /\ Resolved
    /\ IsSet("gitui.signing_methods") /\ config["gitui.signing_methods"] = S_rust
    /\ BuiltErr("MethodNotImplemented")

\* no signing key configured and no identity to fall back on
NoKeyNoIdentity ==
    /\ ResolvesToOpenpgp
    /\ ~IsSet("user.signingKey")
    /\ is_err(repo)

\* C9: on a store that resolves to openpgp, without user.signingKey and without
\* an identity, the call fails with GPGSigningKey, whose detail holds the text of
\* the underlying failure.
C9_NoIdentityIsGPGSigningKey ==
    (Resolved /\ NoKeyNoIdentity) =>
        /\ BuiltErr("GPGSigningKey")
        /\ contains(built.err.detail, repo.err)

C9_Witness ==
    /\ Resolved /\ NoKeyNoIdentity
    /\ config = EmptyConfig
    /\ BuiltErr("GPGSigningKey")

\* C10 as stated: in that case the error returned is the Signature variant.
C10_NoIdentityIsSignature ==
    (Resolved /\ NoKeyNoIdentity) => BuiltErr("Signature")

\* C10 as amended: in that case the error returned is GPGSigningKey, and its
\* detail is the Display text of Signature(e), e the identity's failure.
C10_SignatureInsideGPGSigningKey ==
    (Resolved /\ NoKeyNoIdentity) =>
        built = Err(SignBuilderError("GPGSigningKey", Display_Signature \o repo.err))

C10_Witness ==
    /\ Resolved /\ NoKeyNoIdentity
    /\ IsSet("gpg.format") /\ IsSet("gpg.program")
    /\ is_err(built) /\ built.err.detail = Display_Signature \o E_user_name_not_found

(***************************************************************************)
(* Properties of the signer (checked under SpecSign).                      *)
(***************************************************************************)

\* the call has its result and the child's output was collected
Collected ==
    pc \in {"Confirmed", "Failed"} /\ output # NoOutput

RetErr(variant) ==
    is_err(ret) /\ ret.err.variant = variant

\* C1: a child that exits with success while its error stream lacks
\* "\n[GNUPG:] SIG_CREATED " makes sign return Shellout and never Ok, whatever
\* its output stream holds.
C1_NoMarkerIsShellout ==
    (Collected /\ output.success /\ ~contains(output.stderr, SIG_CREATED)) =>
        pc = "Failed" /\ RetErr("Shellout")

\* the marker's text at the very start of the stream, no newline before it
C1_Witness ==
    /\ Collected /\ output.success
    /\ output.stderr = Tail(SIG_CREATED) \o <<10>>
    /\ output.stdout = T_signature
    /\ RetErr("Shellout")

\* C2: success status, a decodable error stream with the marker and a decodable
\* output stream make sign return Ok of exactly the output stream.
C2_OutputPassedThrough ==
    (Collected /\ output.success
        /\ is_ok(from_utf8(output.stderr)) /\ contains(output.stderr, SIG_CREATED)
        /\ is_ok(from_utf8(output.stdout))) =>
        pc = "Confirmed" /\ ret = Ok(output.stdout)

C2_Witness ==
    /\ Collected /\ output.success
    /\ output.stderr = SIG_CREATED
    /\ output.stdout = T_signature \o <<195, 169>>
    /\ ret = Ok(T_signature \o <<195, 169>>)

\* C7: a non-success exit makes sign return Shellout whose detail holds the
\* program name and the error stream's text (the placeholder when it does not
\* decode), marker and signature notwithstanding.
C7_NonZeroIsShellout ==
    (Collected /\ ~output.success) =>
        /\ pc = "Failed" /\ RetErr("Shellout")
        /\ contains(ret.err.detail, self.program)
        /\ contains(ret.err.detail,
                    IF is_ok(from_utf8(output.stderr)) THEN output.stderr
                    ELSE Fmt_stderr_unreadable)

C7_Witness ==
    /\ Collected /\ ~output.success
    /\ output.stderr = SIG_CREATED
    /\ output.stdout = T_signature
    /\ RetErr("Shellout")

(***************************************************************************)
(* Properties of the resolver's order of decisions (checked under Spec).   *)
(***************************************************************************)

\* C15: a gitui.signing_methods other than "shellouts" decides the outcome alone:
\* "rust" is not implemented, any other value fails with InvalidFormat(value);
\* gpg.format, the program keys, user.signingKey and the identity play no part.
C15_MethodBeforeFormat ==
    (Resolved /\ IsSet("gitui.signing_methods")
        /\ config["gitui.signing_methods"] # S_shellouts) =>
        /\ BuiltErr(IF config["gitui.signing_methods"] = S_rust
                        THEN "MethodNotImplemented" ELSE "InvalidFormat")
        /\ config["gitui.signing_methods"] # S_rust =>
                built.err.detail = config["gitui.signing_methods"]
        /\ \A r \in Repos : \A c \in [DOMAIN config -> UNION {ConfigValues(k) : k \in ConfigKeys}] :
                c["gitui.signing_methods"] = config["gitui.signing_methods"]
                    => from_gitconfig(r, c) = built

C15_Witness ==
    /\ Resolved
    /\ IsSet("gitui.signing_methods") /\ config["gitui.signing_methods"] = S_x509
    /\ IsSet("gpg.format") /\ config["gpg.format"] = S_ssh
    /\ IsSet("user.signingKey") /\ IsSet("gpg.program")
    /\ BuiltErr("InvalidFormat") /\ built.err.detail = S_x509

(***************************************************************************)
(* Properties of the call's stages (checked under SpecSign).               *)
(***************************************************************************)

\* the state of the call in the words of the per-call state machine; the input
\* is written only once its stream is closed
Stage ==
    IF pc = "Written" THEN "Spawned" ELSE pc

StatedOrder ==
    {<<"Idle", "Created">>, <<"Created", "Spawned">>, <<"Spawned", "InputWritten">>,
     <<"InputWritten", "Exited">>, <<"Exited", "Confirmed">>, <<"Exited", "Failed">>,
     <<"Confirmed", "Idle">>, <<"Failed", "Idle">>}

EarlyFailures ==
    {<<"Created", "Failed">>, <<"Spawned", "Failed">>, <<"InputWritten", "Failed">>}

\* C13 as stated: a call goes Created, Spawned, InputWritten, Exited and then
\* Confirmed or Failed; nothing is skipped or revisited and a terminal state is
\* entered from Exited only.
C13_TerminalOnlyFromExited ==
    [][Stage' # Stage => <<Stage, Stage'>> \in StatedOrder]_vars

\* C13 as amended: the order is as stated and Confirmed is entered from Exited
\* only, but Failed is also entered straight from Created, Spawned or
\* InputWritten, when the step taken there fails.
C13_OrderWithEarlyFailures ==
    [][Stage' # Stage => <<Stage, Stage'>> \in StatedOrder \cup EarlyFailures]_vars

\* Failed from InputWritten: the wait failed, nothing was collected
C13_Witness ==
    /\ pc = "Failed" /\ is_err(ret) /\ ret.err.variant = "Output"
    /\ output = NoOutput /\ stdin = "closed"

\* the error a step failing at this position gives
VariantOfStage ==
    CASE pc = "Created" -> "Spawn"
      [] pc = "Spawned" -> IF stdin = "piped" THEN "WriteBuffer" ELSE "Stdin"
      [] pc = "InputWritten" -> "Output"
      [] pc = "Exited" -> "Shellout"
      [] OTHER -> "none"

\* C14: a step that fails gives the variant of its stage (Spawn, Stdin,
\* WriteBuffer, Output, and Shellout for everything found after the exit), and
\* after it nothing runs but the return.
C14_VariantPerStage ==
    [][/\ (pc # "Failed" /\ pc' = "Failed") =>
            (is_err(ret') /\ ret'.err.variant = VariantOfStage)
       /\ pc = "Failed" =>
            (pc' = "Idle" /\ child' = child /\ spawns' = 0)]_vars

C14_Witness ==
    /\ pc = "Failed" /\ is_err(ret) /\ ret.err.variant = "WriteBuffer"
    /\ stdin = "taken" /\ output = NoOutput /\ child = "running"

\* C16: a call runs cmd.spawn() once at most, first thing, and a call that has
\* failed spawns nothing more.
C16_OneSpawnPerCall ==
    [][/\ spawns' <= 1
       /\ spawns' > spawns => (pc = "Created" /\ spawns = 0)
       /\ pc = "Failed" => (spawns' <= spawns /\ pc' = "Idle")]_vars

C16_Witness ==
    /\ pc = "Failed" /\ is_err(ret) /\ ret.err.variant = "Spawn"
    /\ spawns = 1 /\ child = "none"

\* C17: when a call that spawned a child has returned, that child has exited and
\* the call has waited for it.
C17_NoChildOutlivesItsCall ==
    (pc = "Idle" /\ child # "none") => child \in {"reaped", "exited"}

(***************************************************************************)
(* Properties of a sequence of calls (checked under SpecCalls).            *)
(***************************************************************************)

\* a call that has just begun has nothing of an earlier call in its locals
FreshCall ==
    /\ stdin = "none"
    /\ output = NoOutput
    /\ ret = NotCalled
    /\ spawns = 0

\* C18: over any sequence of calls the GPGSign keeps its program and signing key,
\* every call begins with fresh locals, and what a call returns once it has
\* collected the child's output is decided by that output and the program alone,
\* whatever the call before returned.
C18_CallsIndependent ==
    [][/\ self' = self
       /\ pc' = "Created" => FreshCall'
       /\ (pc' \in {"Confirmed", "Failed"} /\ output' # NoOutput) =>
            ret' = check_output(self.program, output')]_vars

\* a call confirmed right after a call that failed
C18_Witness ==
    /\ is_err(prev)
    /\ pc = "Confirmed" /\ is_ok(ret)

(***************************************************************************)
(* Properties of the traffic through the pipes.                            *)
(***************************************************************************)

\* C11 (under SpecPipe): the call waits only with all of commit written and the
\* input stream closed; it reads no byte of the child's output or error stream
\* before that, and writes no byte to the input stream after the close.
C11_InputClosedBeforeDrain ==
    [][/\ pc' = "InputWritten" => (stdin' = "closed" /\ written' = Len(commit'))
       /\ (got' # got /\ pc' # "Idle") => (stdin = "closed" /\ written = Len(commit))
       /\ written' > written => (stdin # "closed" /\ stdin' = "taken")]_vars

\* the output is being drained, the input long closed
C11_Witness ==
    /\ pc = "InputWritten" /\ stdin = "closed"
    /\ written = Len(commit) /\ written > 0
    /\ got.stdout # <<>> /\ cproc.pc = "writing"

\* C12 (under SpecBatch): against a program that reads its input to the end, then
\* writes its streams and exits, every call comes to its result, whatever the
\* pipes hold and however long commit and output are.
C12_CallReturns ==
    (pc = "Created") ~> (pc \in {"Confirmed", "Failed"})

\* commit, output and error stream each longer than a pipe holds
C12_Witness ==
    /\ pc = "Confirmed"
    /\ Len(commit) > cap
    /\ Len(output.stdout) > cap
    /\ Len(output.stderr) > cap

\* C19 (under SpecPipe): once the input is written and closed the call moves on
\* only when the child has exited; while the child has not, the call stays where
\* it is and returns nothing.
C19_NoReturnBeforeExit ==
    [][(pc = "InputWritten" /\ pc' # "InputWritten") => cproc.pc = "exited"]_vars

\* the call blocked on a child that hangs, nothing left to read
C19_Witness ==
    /\ pc = "InputWritten" /\ stdin = "closed" /\ written = Len(commit)
    /\ cproc.pc = "hung"
    /\ outPipe = <<>> /\ errPipe = <<>>
    /\ ret = NotCalled
====
